---- MODULE Spec2Model ----
(***************************************************************************)
(* A model of the FLINT C++ wrapper of src/padic.hpp: PadicContext (a      *)
(* validated prime with a print mode), PadicNumber (a padic_t = unit u,    *)
(* valuation v, precision N, bound to a shared context), the rendering     *)
(* toString and the operations operator+, operator-, log and exp.  The     *)
(* wrapper forwards to FLINT's padic module; the padic_* operators below    *)
(* follow the FLINT functions the wrapper calls.                            *)
(***************************************************************************)
EXTENDS Integers, Sequences, FiniteSets, TLC

(***************************************************************************)
(* Bounds of the model.                                                    *)
(***************************************************************************)
\* integers handed to Fmpz::set for a prime candidate: 0..MaxCand
MaxCand == 4
\* integers handed to PadicNumber::set: -MaxInt..MaxInt
MaxInt == 4
\* precisions handed to the PadicNumber constructor, log and exp: 1..MaxPrec
MaxPrec == 3
\* PADIC_DEFAULT_PREC is 20 in FLINT (src/padic.hpp:173); the model scales it
\* down so that p^N stays inside TLC's integers, keeping it strictly inside
\* the range of precisions (some precisions are below it, some above).
PADIC_DEFAULT_PREC == 2
\* COEFF_MAX is 2^62 - 1 in FLINT: an fmpz holds an integer of absolute value
\* up to COEFF_MAX in the word itself, and a larger one in an mpz that the
\* word points to.  The model scales it down so that units on both sides of
\* it occur.
COEFF_MAX == 2

\* the PadicContext objects and the PadicNumber objects of a run, by name; the
\* caller builds the numbers of UserNumId, the others are results returned by
\* operator+, operator-, log and exp
CtxId == {1, 2}
NumId == {1, 2, 3, 4}
UserNumId == {1, 2}
Candidates == 0..MaxCand
SetInputs == (-MaxInt)..MaxInt
Precisions == 1..MaxPrec
PadicPrintMode == {"TERSE", "SERIES", "VAL_UNIT"}

\* the mpz cells the allocator hands out, one at most for every number
CellId == NumId

NoCtx == [p |-> 0, mode |-> "NONE"]
NoNum == [ctx |-> 0, N |-> 0, u |-> 0, v |-> 0, org |-> [op |-> "none"]]

(***************************************************************************)
(* Integer helpers (fmpz).                                                 *)
(***************************************************************************)
Min(a, b) == IF a <= b THEN a ELSE b

RECURSIVE fmpz_pow_ui(_, _)
fmpz_pow_ui(p, e) == IF e <= 0 THEN 1 ELSE p * fmpz_pow_ui(p, e - 1)

\* fmpz_mod: the remainder in [0, m), also for a negative a
fmpz_mod(a, m) == a % m

\* fmpz_remove: the exponent of p in a nonzero a, and a with p removed
RECURSIVE fmpz_remove_val(_, _)
fmpz_remove_val(a, p) ==
  IF a = 0 \/ p < 2 \/ a % p # 0 THEN 0 ELSE 1 + fmpz_remove_val(a \div p, p)

RECURSIVE fmpz_remove_unit(_, _)
fmpz_remove_unit(a, p) ==
  IF a = 0 \/ p < 2 \/ a % p # 0 THEN a ELSE fmpz_remove_unit(a \div p, p)

\* fmpz_get_str(NULL, 10, a) for a >= 0: the decimal digits, most significant first
RECURSIVE fmpz_get_str(_)
fmpz_get_str(a) ==
  IF a < 10 THEN << a >> ELSE Append(fmpz_get_str(a \div 10), a % 10)

\* reading a decimal digit string back as an integer
RECURSIVE DecValue(_)
DecValue(s) ==
  IF s = << >> THEN 0 ELSE 10 * DecValue(SubSeq(s, 1, Len(s) - 1)) + s[Len(s)]

\* aprcl_is_prime, the primality test behind Fmpz::isPrime
isPrime(n) == n >= 2 /\ \A d \in 2..(n - 1) : n % d # 0

(***************************************************************************)
(* padic_t helpers.                                                        *)
(***************************************************************************)
\* padic_zero: unit 0, valuation 0; the precision is kept
padic_zero(x) == [x EXCEPT !.u = 0, !.v = 0]

\* _padic_canonicalise: move the factors of p from the unit into the valuation
padic_canonicalise(x, p) ==
  IF x.u # 0
    THEN [x EXCEPT !.u = fmpz_remove_unit(x.u, p), !.v = x.v + fmpz_remove_val(x.u, p)]
    ELSE [x EXCEPT !.v = 0]

\* _padic_reduce that leaves the unit as it is (no reduction modulo p^(N - v))
padic_reduce_unit_skipped(x, p) ==
  IF x.u # 0 /\ x.v >= x.N THEN padic_zero(x) ELSE x

\* _padic_reduce: reduce the unit modulo p^(N - v)
padic_reduce_unit(x, p) ==
  IF x.u # 0
    THEN IF x.v < x.N
           THEN LET r == fmpz_mod(x.u, fmpz_pow_ui(p, x.N - x.v))
                IN  IF r = 0 THEN padic_zero(x) ELSE [x EXCEPT !.u = r]
           ELSE padic_zero(x)
    ELSE x

\* padic_reduce: canonicalise, then reduce
padic_reduce(x, p) == padic_reduce_unit(padic_canonicalise(x, p), p)

\* padic_set_si: unit := op, valuation := 0, then padic_reduce
padic_set_si(x, op, p) == padic_reduce([x EXCEPT !.u = op, !.v = 0], p)

\* padic_set_ui: zero; or op < p taken as the unit as it is; or the factors
\* of p removed from op and the unit reduced
padic_set_ui(x, op, p) ==
  IF op = 0 THEN padic_zero(x)
  ELSE IF p > op THEN [x EXCEPT !.u = op, !.v = 0]
  ELSE padic_reduce_unit(
         [x EXCEPT !.u = fmpz_remove_unit(op, p), !.v = fmpz_remove_val(op, p)], p)

\* the integers the unit of x passes through in padic_set_si: op, op with
\* the factors of p removed, and the reduced unit
padic_set_si_steps(x, op, p) ==
  << op, padic_canonicalise([x EXCEPT !.u = op, !.v = 0], p).u, padic_set_si(x, op, p).u >>

\* and in padic_set_ui: the factors of p are removed from the machine word
\* before the unit is written
padic_set_ui_steps(x, op, p) ==
  IF op = 0 \/ p > op THEN << op >>
  ELSE << fmpz_remove_unit(op, p), padic_set_ui(x, op, p).u >>

\* the canonical residue u * p^v of a value (padic_get_fmpz for v >= 0)
padic_get_fmpz(x, p) == x.u * fmpz_pow_ui(p, x.v)

(***************************************************************************)
(* padic_get_str: the three renderings of a value.                         *)
(***************************************************************************)
\* One term of the SERIES text: sep says that " + " precedes it, pow that
\* the digit d is followed by "*p^e" (a term at exponent 0 is the bare digit).
SeriesTerm(first, d, e) == [sep |-> ~first, d |-> d, e |-> e, pow |-> (e # 0)]

\* the loop of padic_get_str over the digits of the unit: x is what is left
\* of the unit, j the digit index, acc the terms written so far.  The first
\* step (j = 0) is unrolled in the code and writes no separator; every later
\* nonzero digit writes " + " first.
\* the loop with the exponent j written in place of j + v
RECURSIVE SeriesLoop_digit_index(_, _, _, _, _)
SeriesLoop_digit_index(x, j, v, p, acc) ==
  IF j > 0 /\ x = 0 THEN acc
  ELSE LET d == fmpz_mod(x, p)
           rest == (x - d) \div p
       IN  SeriesLoop_digit_index(rest, j + 1, v, p,
             IF d # 0 THEN Append(acc, SeriesTerm(j = 0, d, j)) ELSE acc)

RECURSIVE SeriesLoop(_, _, _, _, _)
SeriesLoop(x, j, v, p, acc) ==
  IF j > 0 /\ x = 0 THEN acc
  ELSE LET d == fmpz_mod(x, p)
           rest == (x - d) \div p
       IN  SeriesLoop(rest, j + 1, v, p,
             IF d # 0 THEN Append(acc, SeriesTerm(j = 0, d, j + v)) ELSE acc)

\* A zero unit is written as the text "0" whatever the mode: the digit string
\* 0 under TERSE and VAL_UNIT, and under SERIES a text that reads as the bare
\* digit 0.
padic_get_str(x, p, mode) ==
  IF x.u = 0
    THEN [mode |-> mode,
          text |-> IF mode = "TERSE" THEN << 0 >>
                   ELSE IF mode = "SERIES" THEN << SeriesTerm(TRUE, 0, 0) >>
                   ELSE << << 0 >> >>]
  ELSE IF mode = "TERSE"
    THEN [mode |-> mode,
          text |-> IF x.v = 0 THEN fmpz_get_str(x.u)
                   ELSE fmpz_get_str(fmpz_pow_ui(p, x.v) * x.u)]
  ELSE IF mode = "SERIES"
    THEN [mode |-> mode, text |-> SeriesLoop(x.u, 0, x.v, p, << >>)]
  ELSE [mode |-> mode,
        text |-> IF x.v = 0 THEN << fmpz_get_str(x.u) >>
                 ELSE IF x.v = 1 THEN << fmpz_get_str(x.u), fmpz_get_str(p) >>
                 ELSE << fmpz_get_str(x.u), fmpz_get_str(p), fmpz_get_str(x.v) >>]

(***************************************************************************)
(* State.                                                                  *)
(***************************************************************************)
VARIABLES
  ctx,   \* CtxId -> [p, mode], or NoCtx while the context does not exist
  num,   \* NumId -> [ctx, N, u, v, org], or NoNum; org records how the value was made
  ret,   \* the most recent call: its name, arguments, status and returned text
  mpz    \* the storage of the units: h[x] is the mpz cell the unit word of x
         \* points to (0: the unit is in the word), st[c] the state of cell c,
         \* twice says that a cell was cleared that was not live

vars == << ctx, num, ret, mpz >>

\* objects are numbered in the order of their construction
FreshCtx(c) == ctx[c] = NoCtx /\ \A d \in CtxId : d < c => ctx[d] # NoCtx
FreshNum(x) == num[x] = NoNum /\ \A y \in NumId : y < x => num[y] # NoNum
Live(x) == num[x] # NoNum
PrimeOf(x) == ctx[num[x].ctx].p

(***************************************************************************)
(* The storage of a unit (fmpz).  A unit u of x with |u| <= COEFF_MAX is    *)
(* the word itself; a larger one lives in an mpz cell.  num[x].u is what a  *)
(* read of the unit of x finds: for numbers whose words point to the same   *)
(* cell it is the content of that cell, also when the cell was cleared      *)
(* (memory that the allocator may hand out again).                          *)
(***************************************************************************)
NoMpz == [h |-> [x \in NumId |-> 0], st |-> [c \in CellId |-> "free"], twice |-> FALSE]

COEFF_IS_MPZ(k) == k > COEFF_MAX \/ k < 0 - COEFF_MAX

\* a cleared cell that no word points to is back among the free ones
Collect(m) ==
  [m EXCEPT !.st = [c \in CellId |->
                      IF m.st[c] = "cleared" /\ \A x \in NumId : m.h[x] # c
                        THEN "free" ELSE m.st[c]]]

\* the cells the allocator may hand out: the first free one, or a cleared one
AllocChoices(m) ==
  {c \in CellId : \/ m.st[c] = "cleared"
                  \/ m.st[c] = "free" /\ \A d \in CellId : d < c => m.st[d] # "free"}

\* _fmpz_demote / fmpz_clear: the cell the word of x points to is cleared
fmpz_demote(s, x) ==
  LET h == s.mpz.h[x]
  IN  IF h = 0 THEN s
      ELSE [s EXCEPT !.mpz = Collect([s.mpz EXCEPT !.h[x] = 0, !.st[h] = "cleared",
                                                  !.twice = @ \/ s.mpz.st[h] # "live"])]

\* _fmpz_promote: the word of x keeps the cell it points to, or gets the cell
\* c from the allocator
fmpz_promote(s, x, c) ==
  IF s.mpz.h[x] # 0 THEN s
  ELSE IF c \in AllocChoices(s.mpz)
    THEN [s EXCEPT !.mpz.h[x] = c, !.mpz.st[c] = "live"]
  ELSE [s EXCEPT !.ok = FALSE]

\* the integer k is stored in the unit of x: in the word when it fits (a cell
\* the word pointed to is cleared), else in the cell of the word, where every
\* number whose word points to that cell finds it
fmpz_set(s, x, k, c) ==
  IF COEFF_IS_MPZ(k)
    THEN LET t == fmpz_promote(s, x, c)
         IN  [t EXCEPT !.num = [z \in NumId |->
                                  IF z = x \/ (t.mpz.h[x] # 0 /\ t.mpz.h[z] = t.mpz.h[x])
                                    THEN [t.num[z] EXCEPT !.u = k] ELSE t.num[z]]]
    ELSE [fmpz_demote(s, x) EXCEPT !.num[x].u = k]

\* the integers ks are stored in the unit of x one after the other
RECURSIVE fmpz_sets(_, _, _, _)
fmpz_sets(s, x, ks, c) ==
  IF ks = << >> THEN s ELSE fmpz_sets(fmpz_set(s, x, Head(ks), c), x, Tail(ks), c)

\* a call leaves the number x as new, its unit having passed through the
\* integers ks (the last of them is new.u); the cell the allocator hands out
\* is one it may hand out now, or the cell of x once the call has cleared it
Stored(x, new, ks) ==
  \E c \in AllocChoices(mpz) \cup ({mpz.h[x]} \ {0}) :
    \E s \in {fmpz_sets([num |-> [num EXCEPT ![x] = [new EXCEPT !.u = num[x].u]],
                         mpz |-> mpz, ok |-> TRUE], x, ks, c)} :
      s.ok /\ num' = s.num /\ mpz' = s.mpz

\* the storage after numbers were built and populated one after the other,
\* none of them copied
RECURSIVE OwnStorage(_, _)
OwnStorage(f, x) ==
  IF x = 0 THEN NoMpz
  ELSE LET m == OwnStorage(f, x - 1)
           c == CHOOSE d \in AllocChoices(m) : TRUE
       IN  IF COEFF_IS_MPZ(f[x].u) THEN [m EXCEPT !.h[x] = c, !.st[c] = "live"] ELSE m

Init ==
  /\ ctx = [c \in CtxId |-> NoCtx]
  /\ num = [x \in NumId |-> NoNum]
  /\ ret = [op |-> "none", status |-> "ok"]
  /\ mpz = NoMpz

\* the constructor without its primality check
PadicContext_unchecked(c, n) ==
  /\ FreshCtx(c)
  /\ ctx' = [ctx EXCEPT ![c] = [p |-> n, mode |-> "TERSE"]]
  /\ ret' = [op |-> "PadicContext", arg |-> n, status |-> "ok", res |-> c]
  /\ UNCHANGED << num, mpz >>

(***************************************************************************)
(* PadicContext::PadicContext(p): throws std::invalid_argument unless p is  *)
(* prime; otherwise padic_ctx_init with the mode PADIC_TERSE.               *)
(***************************************************************************)
PadicContext(c, n) ==
  /\ FreshCtx(c)
  /\ IF ~isPrime(n)
       THEN /\ ret' = [op |-> "PadicContext", arg |-> n, status |-> "invalid_argument",
                        res |-> c]
            /\ UNCHANGED << ctx, num >>
       ELSE /\ ctx' = [ctx EXCEPT ![c] = [p |-> n, mode |-> "TERSE"]]
            /\ ret' = [op |-> "PadicContext", arg |-> n, status |-> "ok", res |-> c]
            /\ UNCHANGED num
  /\ UNCHANGED mpz

(***************************************************************************)
(* PadicNumber::PadicNumber(ctx, prec): padic_init2, the value 0.           *)
(***************************************************************************)
PadicNumber(x, c, prec) ==
  /\ FreshNum(x)
  /\ x \in UserNumId
  /\ ctx[c] # NoCtx
  /\ num' = [num EXCEPT ![x] =
               [ctx |-> c, N |-> prec, u |-> 0, v |-> 0, org |-> [op |-> "init"]]]
  /\ ret' = [op |-> "PadicNumber", status |-> "ok", res |-> x]
  /\ UNCHANGED << ctx, mpz >>

(***************************************************************************)
(* PadicNumber::set(unsigned_long_t) and set(signed_long_t).                *)
(***************************************************************************)
set_ui(x, n) ==
  /\ Live(x)
  /\ n >= 0
  /\ Stored(x, [padic_set_ui(num[x], n, PrimeOf(x)) EXCEPT !.org = [op |-> "set", n |-> n]],
            padic_set_ui_steps(num[x], n, PrimeOf(x)))
  /\ ret' = [op |-> "set_ui", status |-> "ok", x |-> x, n |-> n]
  /\ UNCHANGED ctx

set_si(x, n) ==
  /\ Live(x)
  /\ Stored(x, [padic_set_si(num[x], n, PrimeOf(x)) EXCEPT !.org = [op |-> "set", n |-> n]],
            padic_set_si_steps(num[x], n, PrimeOf(x)))
  /\ ret' = [op |-> "set_si", status |-> "ok", x |-> x, n |-> n]
  /\ UNCHANGED ctx

(***************************************************************************)
(* PadicContext::setPrintMode and PadicNumber::toString(mode): the mode of  *)
(* the shared context is set, then padic_get_str renders under it.          *)
(***************************************************************************)
setPrintMode(c, mode) == [ctx EXCEPT ![c].mode = mode]

\* toString with a setPrintMode that leaves the mode of the context as it is
toString_mode_kept(x, mode) ==
  /\ Live(x)
  /\ UNCHANGED ctx
  /\ ret' = [op |-> "toString", status |-> "ok", x |-> x, mode |-> mode,
             str |-> padic_get_str(num[x], PrimeOf(x), ctx'[num[x].ctx].mode)]
  /\ UNCHANGED << num, mpz >>

toString(x, mode) ==
  /\ Live(x)
  /\ ctx' = setPrintMode(num[x].ctx, mode)
  /\ ret' = [op |-> "toString", status |-> "ok", x |-> x, mode |-> mode,
             str |-> padic_get_str(num[x], PrimeOf(x), ctx'[num[x].ctx].mode)]
  /\ UNCHANGED << num, mpz >>

\* The caller builds one context and up to two numbers on it, and sets and
\* renders them in any order.
Next ==
  \/ \E n \in Candidates : PadicContext(1, n)
  \/ \E x \in NumId, c \in CtxId, prec \in Precisions : PadicNumber(x, c, prec)
  \/ \E x \in NumId, n \in SetInputs : set_ui(x, n)
  \/ \E x \in NumId, n \in SetInputs : set_si(x, n)
  \/ \E x \in NumId, mode \in PadicPrintMode : toString(x, mode)

Spec == Init /\ [][Next]_vars

(***************************************************************************)
(* padic_add, padic_sub (with padic_set and padic_neg, which they call when *)
(* an operand is zero).  rop carries the precision the result is reduced    *)
(* to; p is the prime of the context handed to the call.                    *)
(***************************************************************************)
padic_set(rop, op, p) == padic_reduce_unit([rop EXCEPT !.u = op.u, !.v = op.v], p)

padic_neg(rop, op, p) ==
  IF op.u = 0 \/ op.v >= rop.N THEN padic_zero(rop)
  ELSE padic_reduce_unit(
         [rop EXCEPT !.u = fmpz_pow_ui(p, rop.N - op.v) - op.u, !.v = op.v], p)

\* the closing "Reduce" block of padic_add and padic_sub
padic_final_reduce(x, p) ==
  LET r == fmpz_mod(x.u, fmpz_pow_ui(p, x.N - x.v))
  IN  IF r = 0 THEN padic_zero(x) ELSE [x EXCEPT !.u = r]

\* the three valuation cases shared by padic_add (sign = 1) and padic_sub (sign = -1)
padic_addsub(rop, op1, op2, p, sign) ==
  IF op1.v = op2.v
    THEN LET c == padic_canonicalise(
                    [rop EXCEPT !.u = op1.u + sign * op2.u, !.v = op1.v], p)
         IN  IF c.N <= c.v THEN padic_zero(rop) ELSE padic_final_reduce(c, p)
  ELSE IF op1.v < op2.v
    THEN padic_final_reduce(
           [rop EXCEPT !.u = op1.u + sign * fmpz_pow_ui(p, op2.v - op1.v) * op2.u,
                       !.v = op1.v], p)
  ELSE padic_final_reduce(
         [rop EXCEPT !.u = fmpz_pow_ui(p, op1.v - op2.v) * op1.u + sign * op2.u,
                     !.v = op2.v], p)

padic_add(rop, op1, op2, p) ==
  IF rop.N <= Min(op1.v, op2.v) THEN padic_zero(rop)
  ELSE IF op1.u = 0 THEN padic_set(rop, op2, p)
  ELSE IF op2.u = 0 THEN padic_set(rop, op1, p)
  ELSE padic_addsub(rop, op1, op2, p, 1)

padic_sub(rop, op1, op2, p) ==
  IF rop.N <= Min(op1.v, op2.v) THEN padic_zero(rop)
  ELSE IF op1.u = 0 THEN padic_neg(rop, op2, p)
  ELSE IF op2.u = 0 THEN padic_set(rop, op1, p)
  ELSE padic_addsub(rop, op1, op2, p, -1)

(***************************************************************************)
(* operator+ and operator-: the result y is built on the context of lhs at  *)
(* the default precision, then padic_add / padic_sub fill it under the      *)
(* context of lhs.  Neither compares the contexts of lhs and rhs, and       *)
(* neither throws.  The result is returned in place (the compiler elides    *)
(* the copy of the local y).                                                *)
(***************************************************************************)
ResultNumber(c, prec, how) == [ctx |-> c, N |-> prec, u |-> 0, v |-> 0, org |-> how]

OperatorPlus(lhs, rhs, y) ==
  /\ Live(lhs) /\ Live(rhs) /\ FreshNum(y)
  /\ LET r == padic_add(ResultNumber(num[lhs].ctx, PADIC_DEFAULT_PREC,
                                      [op |-> "add", a |-> lhs, b |-> rhs]),
                         num[lhs], num[rhs], PrimeOf(lhs))
     IN  Stored(y, r, << r.u >>)
  /\ ret' = [op |-> "add", status |-> "ok", res |-> y]
  /\ UNCHANGED ctx

OperatorMinus(lhs, rhs, y) ==
  /\ Live(lhs) /\ Live(rhs) /\ FreshNum(y)
  /\ LET r == padic_sub(ResultNumber(num[lhs].ctx, PADIC_DEFAULT_PREC,
                                      [op |-> "sub", a |-> lhs, b |-> rhs]),
                         num[lhs], num[rhs], PrimeOf(lhs))
     IN  Stored(y, r, << r.u >>)
  /\ ret' = [op |-> "sub", status |-> "ok", res |-> y]
  /\ UNCHANGED ctx

(***************************************************************************)
(* The arithmetic specification starts where a caller stands after building *)
(* two contexts on two primes and two numbers x (on the first context) and  *)
(* y (on either), each populated by set; it then applies operator+ and      *)
(* operator- to the numbers at hand.                                        *)
(***************************************************************************)
Primes == {n \in Candidates : isPrime(n)}

Populated(c, p, prec, n) ==
  padic_set_si([ctx |-> c, N |-> prec, u |-> 0, v |-> 0, org |-> [op |-> "set", n |-> n]],
               n, p)

InitArith ==
  \E p1 \in Primes, p2 \in Primes, cy \in {1, 2},
     px \in Precisions, py \in Precisions, nx \in SetInputs, ny \in SetInputs :
    /\ p1 # p2
    /\ ctx = [c \in CtxId |-> IF c = 1 THEN [p |-> p1, mode |-> "TERSE"]
                              ELSE IF c = 2 THEN [p |-> p2, mode |-> "TERSE"]
                              ELSE NoCtx]
    /\ num = [x \in NumId |->
                IF x = 1 THEN Populated(1, p1, px, nx)
                ELSE IF x = 2 THEN Populated(cy, IF cy = 1 THEN p1 ELSE p2, py, ny)
                ELSE NoNum]
    /\ ret = [op |-> "none", status |-> "ok"]
    /\ mpz = OwnStorage(num, Cardinality(NumId))

NextArith ==
  \/ \E lhs \in NumId, rhs \in NumId, y \in NumId : OperatorPlus(lhs, rhs, y)
  \/ \E lhs \in NumId, rhs \in NumId, y \in NumId : OperatorMinus(lhs, rhs, y)

SpecArith == InitArith /\ [][NextArith]_vars

(***************************************************************************)
(* padic_log and padic_exp.  Both sum the p-adic power series modulo p^N,   *)
(* N the precision of rop; a term whose valuation reaches N contributes 0.  *)
(* A quotient a / b of the series is taken in Z_p: the powers of p cancel   *)
(* in the valuation and the unit of b is inverted modulo p^N.               *)
(***************************************************************************)
RECURSIVE PowMod(_, _, _)
PowMod(b, e, m) == IF e = 0 THEN 1 % m ELSE (b * PowMod(b, e - 1, m)) % m

\* the inverse of a unit a modulo m = p^N
UnitInverse(a, m) == IF m = 1 THEN 0 ELSE CHOOSE z \in 1..(m - 1) : (a * z) % m = 1

\* valuation and unit (modulo m) of i!
RECURSIVE FactorialVal(_, _)
FactorialVal(i, p) == IF i <= 1 THEN 0 ELSE fmpz_remove_val(i, p) + FactorialVal(i - 1, p)

RECURSIVE FactorialUnit(_, _, _)
FactorialUnit(i, p, m) ==
  IF i <= 1 THEN 1 % m ELSE (fmpz_remove_unit(i, p) * FactorialUnit(i - 1, p, m)) % m

\* the i-th term y^i / i of the logarithm series, y = yu * p^v, modulo p^N
LogTerm(yu, v, i, p, N) ==
  LET m == fmpz_pow_ui(p, N)
      e == i * v - fmpz_remove_val(i, p)
  IN  IF e >= N THEN 0
      ELSE (fmpz_pow_ui(p, e)
             * ((PowMod(yu % m, i, m) * UnitInverse(fmpz_remove_unit(i, p) % m, m)) % m)) % m

RECURSIVE LogSum(_, _, _, _, _)
LogSum(yu, v, i, p, N) ==
  IF i = 0 THEN 0
  ELSE (LogTerm(yu, v, i, p, N) + LogSum(yu, v, i - 1, p, N)) % fmpz_pow_ui(p, N)

\* every term from here on has valuation >= N: i*v - ord_p(i) >= i - log2(i) >= N
padic_log_bound(N) == 2 * N + 2

\* the series with the sign of the sum lost: z = + sum_{i >= 1} y^i / i
padic_log_series_unsigned(y, v, p, N) ==
  LogSum(fmpz_remove_unit(y, p), v, padic_log_bound(N), p, N) % fmpz_pow_ui(p, N)

\* _padic_log: z = - sum_{i >= 1} y^i / i mod p^N, for y = 1 - x of valuation v
padic_log_series(y, v, p, N) ==
  (0 - LogSum(fmpz_remove_unit(y, p), v, padic_log_bound(N), p, N)) % fmpz_pow_ui(p, N)

\* padic_log with the same convergence test v >= 1 for p = 2 as for odd p
padic_log_no_two(rop, op, p) ==
  IF op.v < 0 THEN [ans |-> 0, rop |-> rop]
  ELSE LET y == 1 - padic_get_fmpz(op, p)
           v == fmpz_remove_val(y, p)
       IN  IF y = 0 THEN [ans |-> 1, rop |-> padic_zero(rop)]
           ELSE IF v >= 1
             THEN IF v >= rop.N THEN [ans |-> 1, rop |-> padic_zero(rop)]
                  ELSE [ans |-> 1,
                        rop |-> padic_canonicalise(
                                  [rop EXCEPT !.u = padic_log_series(y, v, p, rop.N),
                                              !.v = 0], p)]
           ELSE [ans |-> 0, rop |-> rop]

\* padic_log that leaves the sum of the series in the unit, valuation 0
padic_log_not_canonical(rop, op, p) ==
  IF op.v < 0 THEN [ans |-> 0, rop |-> rop]
  ELSE LET y == 1 - padic_get_fmpz(op, p)
           v == fmpz_remove_val(y, p)
       IN  IF y = 0 THEN [ans |-> 1, rop |-> padic_zero(rop)]
           ELSE IF v >= 2 \/ (p # 2 /\ v >= 1)
             THEN IF v >= rop.N THEN [ans |-> 1, rop |-> padic_zero(rop)]
                  ELSE [ans |-> 1,
                        rop |-> [rop EXCEPT !.u = padic_log_series(y, v, p, rop.N),
                                            !.v = 0]]
           ELSE [ans |-> 0, rop |-> rop]

\* padic_log: [ans, rop]; ans = 0 says the series does not converge at op
padic_log(rop, op, p) ==
  IF op.v < 0 THEN [ans |-> 0, rop |-> rop]
  ELSE LET y == 1 - padic_get_fmpz(op, p)
           v == fmpz_remove_val(y, p)
       IN  IF y = 0 THEN [ans |-> 1, rop |-> padic_zero(rop)]
           ELSE IF v >= 2 \/ (p # 2 /\ v >= 1)
             THEN IF v >= rop.N THEN [ans |-> 1, rop |-> padic_zero(rop)]
                  ELSE [ans |-> 1,
                        rop |-> padic_canonicalise(
                                  [rop EXCEPT !.u = padic_log_series(y, v, p, rop.N),
                                              !.v = 0], p)]
           ELSE [ans |-> 0, rop |-> rop]

\* the i-th term x^i / i! of the exponential series, x = u * p^v, modulo p^N
ExpTerm(u, v, i, p, N) ==
  LET m == fmpz_pow_ui(p, N)
      e == i * v - FactorialVal(i, p)
  IN  IF e >= N THEN 0
      ELSE (fmpz_pow_ui(p, e)
             * ((PowMod(u % m, i, m) * UnitInverse(FactorialUnit(i, p, m), m)) % m)) % m

RECURSIVE ExpSum(_, _, _, _, _)
ExpSum(u, v, i, p, N) ==
  IF i < 0 THEN 0
  ELSE (ExpTerm(u, v, i, p, N) + ExpSum(u, v, i - 1, p, N)) % fmpz_pow_ui(p, N)

\* _padic_exp_bound: the number of terms, ceil(((p-1)N - 1) / ((p-1)v - 1))
padic_exp_bound(v, N, p) ==
  LET n == (p - 1) * N - 1
      d == (p - 1) * v - 1
  IN  (n + d - 1) \div d

\* _padic_exp: sum_{0 <= i < bound} x^i / i! mod p^N
padic_exp_series(u, v, p, N) == ExpSum(u, v, padic_exp_bound(v, N, p) - 1, p, N)

\* padic_one: the value 1, which at a precision N <= 0 is the value 0
padic_one(rop) == IF rop.N > 0 THEN [rop EXCEPT !.u = 1, !.v = 0] ELSE padic_zero(rop)

\* padic_exp that refuses valuation 2 as well when p = 2
padic_exp_strict_two(rop, op, p) ==
  IF op.u = 0 THEN [ans |-> 1, rop |-> padic_one(rop)]
  ELSE IF (p = 2 /\ op.v <= 2) \/ op.v <= 0 THEN [ans |-> 0, rop |-> rop]
  ELSE IF op.v < rop.N
    THEN [ans |-> 1,
          rop |-> [rop EXCEPT !.u = padic_exp_series(op.u, op.v, p, rop.N), !.v = 0]]
  ELSE [ans |-> 1, rop |-> padic_one(rop)]

\* padic_exp: [ans, rop]; ans = 0 says the series does not converge at op
padic_exp(rop, op, p) ==
  IF op.u = 0 THEN [ans |-> 1, rop |-> padic_one(rop)]
  ELSE IF (p = 2 /\ op.v <= 1) \/ op.v <= 0 THEN [ans |-> 0, rop |-> rop]
  ELSE IF op.v < rop.N
    THEN [ans |-> 1,
          rop |-> [rop EXCEPT !.u = padic_exp_series(op.u, op.v, p, rop.N), !.v = 0]]
  ELSE [ans |-> 1, rop |-> padic_one(rop)]

(***************************************************************************)
(* log(x, prec) and exp(x, prec): y is built on the context of x at the     *)
(* precision prec; when padic_log / padic_exp does not answer 1 a           *)
(* std::runtime_error is thrown and y is destroyed with the frame.          *)
(***************************************************************************)
log(x, prec, y) ==
  /\ Live(x) /\ FreshNum(y)
  /\ LET r == padic_log(ResultNumber(num[x].ctx, prec,
                                     [op |-> "log", a |-> x, prec |-> prec]),
                        num[x], PrimeOf(x))
     IN  IF r.ans # 1
           THEN /\ ret' = [op |-> "log", status |-> "runtime_error", a |-> x, prec |-> prec]
                /\ UNCHANGED << num, mpz >>
           ELSE /\ Stored(y, r.rop, << r.rop.u >>)
                /\ ret' = [op |-> "log", status |-> "ok", a |-> x, prec |-> prec, res |-> y]
  /\ UNCHANGED ctx

exp(x, prec, y) ==
  /\ Live(x) /\ FreshNum(y)
  /\ LET r == padic_exp(ResultNumber(num[x].ctx, prec,
                                     [op |-> "exp", a |-> x, prec |-> prec]),
                        num[x], PrimeOf(x))
     IN  IF r.ans # 1
           THEN /\ ret' = [op |-> "exp", status |-> "runtime_error", a |-> x, prec |-> prec]
                /\ UNCHANGED << num, mpz >>
           ELSE /\ Stored(y, r.rop, << r.rop.u >>)
                /\ ret' = [op |-> "exp", status |-> "ok", a |-> x, prec |-> prec, res |-> y]
  /\ UNCHANGED ctx

(***************************************************************************)
(* The series specification starts where a caller stands after building a   *)
(* context on a prime and a number x populated by set; it then applies log  *)
(* and exp, at any target precision, to the numbers at hand.                *)
(***************************************************************************)
InitSeries ==
  \E p1 \in Primes, px \in Precisions, nx \in SetInputs :
    /\ ctx = [c \in CtxId |-> IF c = 1 THEN [p |-> p1, mode |-> "TERSE"] ELSE NoCtx]
    /\ num = [x \in NumId |-> IF x = 1 THEN Populated(1, p1, px, nx) ELSE NoNum]
    /\ ret = [op |-> "none", status |-> "ok"]
    /\ mpz = OwnStorage(num, Cardinality(NumId))

NextSeries ==
  \/ \E x \in NumId, prec \in Precisions, y \in NumId : log(x, prec, y)
  \/ \E x \in NumId, prec \in Precisions, y \in NumId : exp(x, prec, y)

SpecSeries == InitSeries /\ [][NextSeries]_vars

(***************************************************************************)
(* The normal-form specification starts like the arithmetic specification;  *)
(* the caller then sets the second number again, any number of times, and   *)
(* takes one sum or difference of the numbers at hand.                      *)
(***************************************************************************)
\* no number at hand was returned by operator+, operator-, log or exp
NoResultYet == \A x \in NumId : num[x].org.op \notin {"add", "sub", "log", "exp"}

NextNormal ==
  \/ \E x \in UserNumId \ {1}, n \in SetInputs : set_ui(x, n)
  \/ \E x \in UserNumId \ {1}, n \in SetInputs : set_si(x, n)
  \/ \E lhs \in NumId, rhs \in NumId, y \in NumId :
       NoResultYet /\ OperatorPlus(lhs, rhs, y)
  \/ \E lhs \in NumId, rhs \in NumId, y \in NumId :
       NoResultYet /\ OperatorMinus(lhs, rhs, y)

SpecNormal == InitArith /\ [][NextNormal]_vars

(***************************************************************************)
(* The rendering specification starts like the series specification; the    *)
(* caller then renders the numbers at hand under any mode and sets the      *)
(* first number again, any number of times and in any order, and takes one  *)
(* sum, difference, logarithm or exponential.                               *)
(***************************************************************************)
NextRender ==
  \/ \E x \in NumId, mode \in PadicPrintMode : toString(x, mode)
  \/ \E n \in SetInputs : set_ui(1, n)
  \/ \E n \in SetInputs : set_si(1, n)
  \/ \E lhs \in NumId, rhs \in NumId, y \in NumId :
       NoResultYet /\ OperatorPlus(lhs, rhs, y)
  \/ \E lhs \in NumId, rhs \in NumId, y \in NumId :
       NoResultYet /\ OperatorMinus(lhs, rhs, y)
  \/ \E x \in NumId, prec \in Precisions, y \in NumId :
       NoResultYet /\ log(x, prec, y)
  \/ \E x \in NumId, prec \in Precisions, y \in NumId :
       NoResultYet /\ exp(x, prec, y)

SpecRender == InitSeries /\ [][NextRender]_vars

(***************************************************************************)
(* Copying and destroying a PadicNumber.  The class declares a destructor   *)
(* and no copy constructor, so a copy is the member-wise one: the           *)
(* shared_ptr to the context is copied (the context is shared) and so is    *)
(* the padic_t, word for word: the valuation, the precision and the unit    *)
(* word, which for a unit above COEFF_MAX points to the mpz cell of the     *)
(* original.  The destructor calls padic_clear, which clears the cell the   *)
(* unit word points to.  Reading or writing a cleared cell is undefined     *)
(* behaviour: the model lets the cell keep its content until the allocator  *)
(* hands it out again (it may at every allocation), after which the words   *)
(* that still point to it find what the new owner stores.                   *)
(***************************************************************************)
CopyPadicNumber(a, b) ==
  /\ Live(a) /\ FreshNum(b)
  /\ num' = [num EXCEPT ![b] = [num[a] EXCEPT !.org = [op |-> "copy", a |-> a]]]
  /\ mpz' = [mpz EXCEPT !.h[b] = mpz.h[a]]
  /\ ret' = [op |-> "copy", status |-> "ok", a |-> a, res |-> b]
  /\ UNCHANGED ctx

DestroyPadicNumber(x) ==
  /\ Live(x)
  /\ LET s == fmpz_demote([num |-> num, mpz |-> mpz, ok |-> TRUE], x)
     IN  /\ num' = [s.num EXCEPT ![x] = NoNum]
         /\ mpz' = s.mpz
  /\ ret' = [op |-> "destroy", status |-> "ok", x |-> x]
  /\ UNCHANGED ctx

\* The copy specification starts like the series specification; the caller
\* then copies a number at hand, keeping up to two numbers at a time, and
\* sets and destroys them in any order.
NextCopy ==
  \/ \E a \in NumId, b \in UserNumId : CopyPadicNumber(a, b)
  \/ \E x \in NumId, n \in SetInputs : set_ui(x, n)
  \/ \E x \in NumId, n \in SetInputs : set_si(x, n)
  \/ \E x \in NumId : DestroyPadicNumber(x)

SpecCopy == InitSeries /\ [][NextCopy]_vars

(***************************************************************************)
(* The precision specification starts like the series specification; the    *)
(* caller then builds a second number and takes log and exp, handing any    *)
(* precision, positive or not, to the constructor and as the target of log  *)
(* and exp.  Neither padic_init2 nor the wrapper looks at the sign of the   *)
(* precision.                                                               *)
(***************************************************************************)
AnyPrecision == (-1)..MaxPrec

NextPrecision ==
  \/ \E x \in NumId, c \in CtxId, prec \in AnyPrecision : PadicNumber(x, c, prec)
  \/ \E x \in NumId, prec \in AnyPrecision, y \in NumId : log(x, prec, y)
  \/ \E x \in NumId, prec \in AnyPrecision, y \in NumId : exp(x, prec, y)

SpecPrecision == InitSeries /\ [][NextPrecision]_vars

(***************************************************************************)
(* Properties of construction, set and toString (specification Spec).       *)
(***************************************************************************)
\* the number a call of toString rendered, and the prime of its context
Rendered == num[ret.x]
RenderedSet(mode) ==
  /\ ret.op = "toString"
  /\ ret.str.mode = mode
  /\ Rendered.org.op = "set"

\* the value of a SERIES text: the sum of d * p^e over its terms
RECURSIVE SeriesValue(_, _)
SeriesValue(t, p) ==
  IF t = << >> THEN 0
  ELSE t[Len(t)].d * fmpz_pow_ui(p, t[Len(t)].e) + SeriesValue(SubSeq(t, 1, Len(t) - 1), p)

\* C1: a number of precision N > 0 populated by set(n), n of either sign,
\* renders under TERSE as the decimal string of the residue of n in [0, p^N).
C1_TerseIsCanonicalResidue ==
  (RenderedSet("TERSE") /\ Rendered.N > 0) =>
    LET m == fmpz_pow_ui(PrimeOf(ret.x), Rendered.N)
        r == CHOOSE k \in 0..(m - 1) : (k - Rendered.org.n) % m = 0
    IN  /\ DecValue(ret.str.text) = r
        /\ ret.str.text = fmpz_get_str(r)

\* a negative n divisible by p was set and rendered under TERSE
C1_Witness ==
  /\ RenderedSet("TERSE")
  /\ Rendered.org.n < 0
  /\ Rendered.v > 0
  /\ ret.str.text # << 0 >>

\* the terms of a SERIES text lie between the valuation and N - 1, carry the
\* digits 1..p-1, ascend strictly, and sum to the integer TERSE shows
SeriesTermsWellFormed(t, x, p) ==
  /\ \A i \in 1..Len(t) :
       /\ x.v <= t[i].e /\ t[i].e <= x.N - 1
       /\ 1 <= t[i].d /\ t[i].d <= p - 1
  /\ \A i \in 1..(Len(t) - 1) : t[i].e < t[i + 1].e
  /\ SeriesValue(t, p) = DecValue(padic_get_str(x, p, "TERSE").text)

\* C2 (as stated): for every value produced by set, the SERIES rendering lists
\* only terms d*p^i with v <= i <= N-1 and 1 <= d <= p-1, ascending, whose sum
\* is the integer of the TERSE rendering.
C2_SeriesTermsAsStated ==
  RenderedSet("SERIES") => SeriesTermsWellFormed(ret.str.text, Rendered, PrimeOf(ret.x))

\* C2 (amended): the same for every value with a nonzero residue; a zero
\* residue renders under SERIES as the single text "0".
C2_SeriesTermsOfNonzero ==
  RenderedSet("SERIES") =>
    IF Rendered.u = 0
      THEN ret.str.text = << [sep |-> FALSE, d |-> 0, e |-> 0, pow |-> FALSE] >>
      ELSE SeriesTermsWellFormed(ret.str.text, Rendered, PrimeOf(ret.x))

\* a value of positive valuation with two digits was rendered under SERIES
C2_Witness ==
  /\ RenderedSet("SERIES")
  /\ Rendered.v > 0
  /\ Len(ret.str.text) >= 2

\* C10: building a PadicContext succeeds exactly for the primes; for every
\* other integer (0, 1, composites) it throws std::invalid_argument and no
\* context comes to exist.
HasTwoDivisors(n) == n >= 1 /\ Cardinality({d \in 1..n : n % d = 0}) = 2

C10_OnlyPrimesMakeContexts ==
  /\ \A c \in CtxId : ctx[c] # NoCtx => HasTwoDivisors(ctx[c].p)
  /\ ret.op = "PadicContext" =>
       IF HasTwoDivisors(ret.arg)
         THEN ret.status = "ok" /\ ctx[ret.res].p = ret.arg
         ELSE ret.status = "invalid_argument" /\ ctx[ret.res] = NoCtx

\* a composite was refused, and no context exists
C10_Witness ==
  /\ ret.op = "PadicContext"
  /\ ret.status = "invalid_argument"
  /\ ret.arg > 1
  /\ \A c \in CtxId : ctx[c] = NoCtx

(***************************************************************************)
(* Properties of operator+ and operator- (specification SpecArith).         *)
(***************************************************************************)
\* the operands of a result (its org names them) and whether they share a context
Lhs(y) == num[num[y].org.a]
Rhs(y) == num[num[y].org.b]
IsSum(y) == Live(y) /\ num[y].org.op = "add"
IsDifference(y) == Live(y) /\ num[y].org.op = "sub"
SameContext(y) == Lhs(y).ctx = Rhs(y).ctx
Residue(x) == padic_get_fmpz(x, ctx[x.ctx].p)

\* C3 (as stated): add(x, y) on a shared context has the precision
\* min(x.precision, y.precision) and the residue (x + y) mod p^min; with both
\* operands below the default precision the sum is reduced to the smaller
\* operand precision, not to the default one.
C3_SumAtMinPrecision ==
  \A y \in NumId :
    (IsSum(y) /\ SameContext(y)) =>
      LET n == Min(Lhs(y).N, Rhs(y).N)
      IN  /\ num[y].N = n
          /\ Residue(num[y]) = (Residue(Lhs(y)) + Residue(Rhs(y))) % fmpz_pow_ui(PrimeOf(y), n)

\* C4 (as stated): add and sub of numbers built on different contexts fail
\* with ContextMismatch, so no sum or difference of such operands exists.
C4_MismatchReturnsNothing ==
  /\ \A y \in NumId : (IsSum(y) \/ IsDifference(y)) => SameContext(y)
  /\ (ret.op \in {"add", "sub"} /\ ~SameContext(ret.res)) => ret.status = "ContextMismatch"

\* x cut down to the precision n, as padic_set into a number of precision n does
AtPrecision(x, n) == padic_set([x EXCEPT !.N = n, !.u = 0, !.v = 0], x, ctx[x.ctx].p)
RendersAlike(x, y, n) ==
  \A mode \in PadicPrintMode :
    padic_get_str(AtPrecision(x, n), ctx[x.ctx].p, mode)
      = padic_get_str(AtPrecision(y, n), ctx[y.ctx].p, mode)

\* C8 (as stated): sub(add(x, y), y) renders as x does at the precision x and
\* y share, min(x.precision, y.precision), on a shared context.
C8_SubUndoesAdd ==
  \A w \in NumId :
    (/\ IsDifference(w)
     /\ IsSum(num[w].org.a)
     /\ num[num[w].org.a].org.b = num[w].org.b
     /\ SameContext(num[w].org.a)) =>
      LET x == Lhs(num[w].org.a)
      IN  RendersAlike(num[w], x, Min(x.N, Rhs(w).N))

(***************************************************************************)
(* Properties of log and exp (specification SpecSeries).                    *)
(***************************************************************************)
IsLog(y) == Live(y) /\ num[y].org.op = "log"
IsExp(y) == Live(y) /\ num[y].org.op = "exp"
Arg(y) == num[num[y].org.a]
\* the call ret describes left no number behind
NothingReturned == \A y \in NumId :
  Live(y) => ~(/\ num[y].org.op = ret.op
               /\ num[y].org.a = ret.a
               /\ num[y].org.prec = ret.prec)

\* the valuation of x exceeds e / (p - 1); the valuation of 0 is infinite
ValuationExceeds(x, e, p) == x.u = 0 \/ (p - 1) * x.v > e

\* C5 (as stated): exp(x) succeeds exactly when valuation(x) > e/(p-1), with
\* e = 1 for odd p and e = 2 for p = 2, and fails with an error otherwise.
C5_ExpDomainAsStated ==
  ret.op = "exp" =>
    LET p == PrimeOf(ret.a)
    IN  (ret.status = "ok") <=> ValuationExceeds(num[ret.a], IF p = 2 THEN 2 ELSE 1, p)

\* C5 (amended): exp(x) succeeds exactly when valuation(x) > 1/(p-1) for every
\* p (valuation >= 2 for p = 2, >= 1 for odd p; x = 0 is accepted), and
\* otherwise fails with an error and returns no number.
C5_ExpDomain ==
  ret.op = "exp" =>
    IF ValuationExceeds(num[ret.a], 1, PrimeOf(ret.a))
      THEN ret.status = "ok" /\ IsExp(ret.res) /\ num[ret.res].org.a = ret.a
      ELSE ret.status = "runtime_error" /\ NothingReturned

\* exp of a 2-adic number of valuation exactly 2 returned a value other than 1
C5_Witness ==
  /\ ret.op = "exp" /\ ret.status = "ok"
  /\ PrimeOf(ret.a) = 2 /\ num[ret.a].u # 0 /\ num[ret.a].v = 2
  /\ num[ret.res].u > 1

\* x is in the domain of log: x = 1 mod p for odd p, x = 1 mod 4 for p = 2
OneUnit(x, p) == Residue(x) % (IF p = 2 THEN 4 ELSE p) = 1

\* C6: log(x, prec) fails with an error, returning no number, exactly when x
\* is not 1 mod p (p odd) or not 1 mod 4 (p = 2); otherwise it returns a
\* number of precision prec.
C6_LogDomain ==
  ret.op = "log" =>
    IF OneUnit(num[ret.a], PrimeOf(ret.a))
      THEN /\ ret.status = "ok" /\ IsLog(ret.res) /\ num[ret.res].org.a = ret.a
           /\ num[ret.res].N = ret.prec
      ELSE ret.status = "runtime_error" /\ NothingReturned

\* a log at a precision other than the default and other than that of x succeeded
C6_Witness ==
  /\ ret.op = "log" /\ ret.status = "ok"
  /\ ret.prec # PADIC_DEFAULT_PREC /\ ret.prec # num[ret.a].N
  /\ num[ret.res].u # 0

\* z = exp(log(x)): z is an exp whose argument is a log
IsRoundTrip(z) == IsExp(z) /\ IsLog(num[z].org.a)

\* C7 (as stated): exp(log(x)) renders as x does when both are taken at the
\* minimum of the precisions of x and of the result.
C7_RoundTripAsStated ==
  \A z \in NumId :
    IsRoundTrip(z) =>
      LET x == Arg(num[z].org.a)
      IN  RendersAlike(num[z], x, Min(x.N, num[z].N))

\* C7 (amended): exp(log(x)) renders as x does when both are taken at the
\* minimum of the precisions of x, of log(x) and of the result.
C7_RoundTrip ==
  \A z \in NumId :
    IsRoundTrip(z) =>
      LET x == Arg(num[z].org.a)
      IN  RendersAlike(num[z], x, Min(Min(x.N, Arg(z).N), num[z].N))

\* a round trip through a nonzero logarithm, all three precisions above 1
C7_Witness ==
  \E z \in NumId :
    /\ IsRoundTrip(z)
    /\ Arg(z).u # 0
    /\ Min(Min(Arg(num[z].org.a).N, Arg(z).N), num[z].N) > 1

\* C9: for odd p the logarithm of an x = 1 mod p has valuation >= 1: its
\* residue is divisible by p, a nonzero one has a stored valuation >= 1, and
\* its SERIES rendering has no term at p^0.
C9_LogValuation ==
  \A y \in NumId :
    (IsLog(y) /\ PrimeOf(y) # 2 /\ OneUnit(Arg(y), PrimeOf(y))) =>
      /\ Residue(num[y]) % PrimeOf(y) = 0
      /\ num[y].u # 0 => (num[y].v >= 1 /\ num[y].u % PrimeOf(y) # 0)
      /\ \A i \in 1..Len(padic_get_str(num[y], PrimeOf(y), "SERIES").text) :
           LET t == padic_get_str(num[y], PrimeOf(y), "SERIES").text[i]
           IN  t.d # 0 => t.e >= 1

\* a nonzero logarithm for an odd p
C9_Witness ==
  \E y \in NumId : IsLog(y) /\ PrimeOf(y) # 2 /\ num[y].u # 0

(***************************************************************************)
(* Properties of the precision (specification SpecPrecision).               *)
(***************************************************************************)
\* C11 (as stated): a PadicNumber asked for with a precision <= 0 is refused,
\* so every number that exists, built by the caller or returned by log or
\* exp at a target precision, has a precision > 0.
C11_PrecisionPositive == \A x \in NumId : Live(x) => num[x].N > 0

(***************************************************************************)
(* Properties of the stored form (specification SpecNormal).                *)
(***************************************************************************)
\* x is in normal form: a nonzero unit is not divisible by p, so that v is the
\* largest exponent with p^v dividing the residue, and lies in [0, p^(N - v))
NormalForm(x, p) ==
  x.u # 0 =>
    /\ x.u % p # 0
    /\ fmpz_remove_val(padic_get_fmpz(x, p), p) = x.v
    /\ 0 <= x.u /\ x.u < fmpz_pow_ui(p, x.N - x.v)

\* C12 (as stated): after any sequence of set, operator+ and operator- every
\* number with a nonzero residue is in normal form with respect to the prime
\* of its context, and a set leaves the precision of its number as it was.
C12_NormalForm ==
  /\ [](\A x \in NumId : Live(x) => NormalForm(num[x], PrimeOf(x)))
  /\ [][ret'.op \in {"set_ui", "set_si"} => num'[ret'.x].N = num[ret'.x].N]_vars

(***************************************************************************)
(* Properties of rendering among the operations (specification SpecRender). *)
(***************************************************************************)
\* the unit, valuation and precision of a number
Value(x) == << x.u, x.v, x.N >>

\* a step of toString leaves every number as it is and changes the contexts in
\* one place only: the mode of the context of the rendered number becomes the
\* mode asked for
RenderFrame ==
  ret'.op = "toString" =>
    /\ num' = num
    /\ ctx' = [ctx EXCEPT ![num[ret'.x].ctx].mode = ret'.mode]
    /\ ret'.str.mode = ret'.mode

\* a step of set, operator+, operator-, log or exp leaves every mode as it is
\* and stores what the FLINT function gives from the operands and the prime
\* alone, whatever the mode of the context
ModeBlind ==
  /\ ret'.op # "toString" => ctx' = ctx
  /\ ret'.op = "set_ui" =>
       Value(num'[ret'.x]) = Value(padic_set_ui(num[ret'.x], ret'.n, PrimeOf(ret'.x)))
  /\ ret'.op = "set_si" =>
       Value(num'[ret'.x]) = Value(padic_set_si(num[ret'.x], ret'.n, PrimeOf(ret'.x)))
  /\ ret'.op = "add" =>
       LET y == num'[ret'.res]
       IN  Value(y) = Value(padic_add([y EXCEPT !.u = 0, !.v = 0], num[y.org.a],
                                      num[y.org.b], PrimeOf(y.org.a)))
  /\ ret'.op = "sub" =>
       LET y == num'[ret'.res]
       IN  Value(y) = Value(padic_sub([y EXCEPT !.u = 0, !.v = 0], num[y.org.a],
                                      num[y.org.b], PrimeOf(y.org.a)))
  /\ (ret'.op = "log" /\ ret'.status = "ok") =>
       LET y == num'[ret'.res]
       IN  Value(y) = Value(padic_log([y EXCEPT !.u = 0, !.v = 0], num[ret'.a],
                                      PrimeOf(ret'.a)).rop)
  /\ (ret'.op = "exp" /\ ret'.status = "ok") =>
       LET y == num'[ret'.res]
       IN  Value(y) = Value(padic_exp([y EXCEPT !.u = 0, !.v = 0], num[ret'.a],
                                      PrimeOf(ret'.a)).rop)

\* C13: toString(mode) has one side effect, setting the mode of the context of
\* the rendered number to mode (so the mode of a context is that of the most
\* recent rendering of a number on it); it leaves the unit, valuation and
\* precision of every number unchanged, and set, operator+, operator-, log
\* and exp give the same results whatever the mode is when they run.
C13_RenderOnlySetsMode == [][RenderFrame /\ ModeBlind]_vars

\* a logarithm was taken and returned a nonzero value while the mode of the
\* context, left by an earlier rendering, was VAL_UNIT
C13_Witness ==
  /\ ret.op = "log" /\ ret.status = "ok"
  /\ ctx[num[ret.a].ctx].mode = "VAL_UNIT"
  /\ num[ret.res].u # 0

(***************************************************************************)
(* Properties of copies (specification SpecCopy).                           *)
(***************************************************************************)
\* the three renderings of a number
Renderings(x) == [mode \in PadicPrintMode |-> padic_get_str(x, ctx[x.ctx].p, mode)]

\* a copy shares the context of its original and has its unit and valuation
CopyIsEqual ==
  ret'.op = "copy" =>
    /\ num'[ret'.res].ctx = num[ret'.a].ctx
    /\ Value(num'[ret'.res]) = Value(num[ret'.a])

\* a set on a number, or its destruction, leaves the unit, the valuation and
\* the renderings of every other number as they were
OthersUntouched ==
  ret'.op \in {"set_ui", "set_si", "destroy"} =>
    \A z \in NumId \ {ret'.x} :
      Live(z) => /\ Value(num'[z]) = Value(num[z])
                 /\ Renderings(num'[z]) = Renderings(num[z])

\* C14 (as stated): a copy shares the context of the original and owns a copy
\* of its unit and valuation: a set on either number, or the destruction of
\* either, leaves the other's unit, valuation and renderings unchanged, and
\* no unit storage is cleared twice.
C14_CopyIsIndependent ==
  /\ [][CopyIsEqual /\ OthersUntouched]_vars
  /\ [](~mpz.twice)

====
